---- MODULE Spec2Model ----
(***************************************************************************)
(* Organization Management Service (src/scripts/main.py).                  *)
(*                                                                         *)
(* The master database holds the collections "organizations" and "admins"  *)
(* and one dynamically named collection per organization.  The model       *)
(* keeps the three as the variables orgs, admins and colls, the clock read *)
(* by datetime.utcnow() as now, the JWT the client holds (the one returned *)
(* by its latest login) as tokens, the request and response of the last    *)
(* served route as last, and a create_organization call that is between    *)
(* two of its awaits as pending.  calls holds, for each request the event  *)
(* loop is serving concurrently, the await it has reached and its locals.  *)
(*                                                                         *)
(* Organization names are sequences of characters so that                  *)
(* lower()/replace(' ', '_') is computed, not assumed.  Documents of the   *)
(* per-organization collections carry no _id: update_organization pops it  *)
(* before re-inserting and nothing else reads it.                          *)
(***************************************************************************)
EXTENDS Integers, Sequences, FiniteSets, TLC

VARIABLES orgs, admins, colls, nextId, now, tokens, last, pending, calls

vars == <<orgs, admins, colls, nextId, now, tokens, last, pending, calls>>

(* ------------------------------ bounds -------------------------------- *)

MaxId == 4          \* ObjectIds handed out by insert_one on the master collections
MaxDocs == 1        \* documents clients add to the organization collections

(* ----------------------------- constants ------------------------------ *)

JWT_EXPIRATION_HOURS == 24

JWT_SECRET == "your-super-secret-jwt-key-change-in-production"

NULL == -1          \* Python None / absent field

Names == { <<"A", " ">>, <<"a", "_">>, <<"b", "c">> }

Emails == { "a@acme.com", "b@acme.com" }

Passwords == { "secret1" }

Salts == { 1 }

Payloads == { "x" }

\* The instants at which requests arrive, in hours.
TokInstants == { 0, 1, 23, 24, 25 }

TokNames == { <<"A", " ">>, <<"b", "c">> }

TokEmails == { "a@acme.com" }

TokPasswords == { "secret1" }

TokSalts == { 1 }

AuthNames == { <<"A", " ">>, <<"b", "c">> }

AuthPasswords == { "secret1", "secret2" }

\* The requests uvicorn's event loop is serving at the same time.
Procs == { 1, 2 }

RaceNames == { <<"A", " ">>, <<"a", "_">>, <<"b", "c">> }

RaceEmails == { "a@acme.com", "b@acme.com" }

(* ------------------------- PasswordHandler ---------------------------- *)

\* bcrypt: a salted digest; the salt is stored with it.
hash_password(password, salt) ==
    [salt |-> salt, digest |-> <<salt, password>>]

verify_password(plain_password, hashed_password) ==
    hashed_password.digest = <<hashed_password.salt, plain_password>>

(* ----------------------------- JWTHandler ----------------------------- *)

\* HS256 signature of a payload under a key.
Sign(payload, key) == <<key, payload>>

create_token_short(admin_id, org_id, org_name) ==
    LET payload == [admin_id |-> admin_id,
                    org_id   |-> org_id,
                    org_name |-> org_name,
                    exp      |-> now + JWT_EXPIRATION_HOURS - 1,
                    iat      |-> now]
    IN  [payload |-> payload, sig |-> Sign(payload, JWT_SECRET)]

\* Both datetime.utcnow() calls are taken at the instant of the request.
create_token(admin_id, org_id, org_name) ==
    LET payload == [admin_id |-> admin_id,
                    org_id   |-> org_id,
                    org_name |-> org_name,
                    exp      |-> now + JWT_EXPIRATION_HOURS,
                    iat      |-> now]
    IN  [payload |-> payload, sig |-> Sign(payload, JWT_SECRET)]

\* jwt.decode checks the signature first, then refuses a token whose exp the
\* clock has reached.
decode_token(token) ==
    IF token.sig # Sign(token.payload, JWT_SECRET)
    THEN [ok |-> FALSE, detail |-> "InvalidToken"]
    ELSE IF now >= token.payload.exp
    THEN [ok |-> FALSE, detail |-> "ExpiredToken"]
    ELSE [ok |-> TRUE, payload |-> token.payload]

(* ------------------------------ Database ------------------------------ *)

LowerChar(c) ==
    CASE c = "A" -> "a"
      [] c = "B" -> "b"
      [] OTHER   -> c

ReplaceChar(c) == IF c = " " THEN "_" ELSE c

\* f"org_{org_name.lower().replace(' ', '_')}"
CollectionName(org_name) ==
    <<"o", "r", "g", "_">> \o
        [i \in 1..Len(org_name) |-> ReplaceChar(LowerChar(org_name[i]))]

\* db[name].find(): the documents of a collection, none when it does not exist.
FindAll(c, name) == IF name \in DOMAIN c THEN c[name] ELSE <<>>

\* db[name].insert_one(doc): creates the collection when it does not exist.
InsertOne(c, name, doc) ==
    [n \in (DOMAIN c) \cup {name} |-> IF n = name THEN Append(FindAll(c, name), doc) ELSE c[n]]

\* db[name].drop()
Drop(c, name) == [n \in (DOMAIN c) \ {name} |-> c[n]]

RECURSIVE InsertMany(_, _, _)
InsertMany(c, name, docs) ==
    IF docs = <<>> THEN c
    ELSE InsertMany(InsertOne(c, name, Head(docs)), name, Tail(docs))

MetadataDoc(organization_name) ==
    [_type |-> "metadata",
     organization_name |-> organization_name,
     initialized_at |-> now,
     schema_version |-> "1.0"]

Init ==
    /\ orgs = {}
    /\ admins = {}
    /\ colls = [n \in {} |-> <<>>]
    /\ nextId = 1
    /\ now = 0
    /\ tokens = {}
    /\ last = [op |-> "none"]
    /\ pending = [pc |-> "idle"]
    /\ calls = [p \in Procs |-> [pc |-> "idle"]]

(* ------------------------- OrganizationService ------------------------ *)

\* organizations.find({"organization_name": ...})
OrgsNamed(organization_name) ==
    {o \in orgs : o.organization_name = organization_name}

\* admins.find({"email": ...})
AdminsWithEmail(email) == {a \in admins : a.email = email}

\* organizations.find({"admin_id": ...})
OrgsOfAdmin(admin_id) == {o \in orgs : o.admin_id = admin_id}

\* create_organization: existing_org
NameTaken(name) == OrgsNamed(name) # {}

EmailTakenNever(email) == FALSE

\* create_organization: existing_admin
EmailTaken(email) == AdminsWithEmail(email) # {}

RenameClashNever(old_name, name) == FALSE

RenameClashSelf(old_name, name) == OrgsNamed(name) # {}

\* update_organization: existing, looked up only when the name is being changed
RenameClash(old_name, name) == name # old_name /\ OrgsNamed(name) # {}

NotOwnerOfExisting(admin_payload, org_name) ==
    admin_payload.org_name # org_name /\ OrgsNamed(org_name) # {}

\* update_organization, delete_organization: "Verify the admin owns this organization"
NotOwner(admin_payload, org_name) == admin_payload.org_name # org_name

\* get_organization, update_organization: the dict returned
OrgView(org) ==
    [id |-> org._id,
     organization_name |-> org.organization_name,
     collection_name |-> org.collection_name,
     admin_email |-> org.admin_email,
     created_at |-> org.created_at,
     updated_at |-> org.updated_at]

\* GET /org/get
get_organization(org_name) ==
    /\ IF OrgsNamed(org_name) = {}
       THEN last' = [op |-> "get", name |-> org_name, result |-> "NotFound"]
       ELSE \E org \in OrgsNamed(org_name) :
                last' = [op |-> "get", name |-> org_name, result |-> "OK",
                         view |-> OrgView(org)]
    /\ UNCHANGED <<orgs, admins, colls, nextId, now, tokens, pending, calls>>

\* create_organization: admin_doc, with the _id insert_one gives it.  The
\* document has no updated_at until the first update sets one.
AdminDoc(admin_id, email, password, salt) ==
    [_id |-> admin_id,
     email |-> email,
     password_hash |-> hash_password(password, salt),
     created_at |-> now,
     updated_at |-> NULL]

\* create_organization: org_doc, with the _id insert_one gives it
OrgDoc(org_id, name, admin_id, email) ==
    [_id |-> org_id,
     organization_name |-> name,
     collection_name |-> CollectionName(name),
     admin_id |-> admin_id,
     admin_email |-> email,
     created_at |-> now,
     updated_at |-> NULL]

\* POST /org/create
create_organization(name, email, password, salt) ==
    LET req == [op |-> "create", name |-> name, email |-> email]
    IN
    IF NameTaken(name)
    THEN /\ last' = req @@ [result |-> "DuplicateName"]
         /\ UNCHANGED <<orgs, admins, colls, nextId, now, tokens, pending, calls>>
    ELSE IF EmailTaken(email)
    THEN /\ last' = req @@ [result |-> "DuplicateEmail"]
         /\ UNCHANGED <<orgs, admins, colls, nextId, now, tokens, pending, calls>>
    ELSE
        LET admin_id == nextId
            org_id == nextId + 1
        IN  /\ nextId + 1 <= MaxId
            /\ admins' = admins \cup {AdminDoc(admin_id, email, password, salt)}
            /\ orgs' = orgs \cup {OrgDoc(org_id, name, admin_id, email)}
            /\ colls' = InsertOne(colls, CollectionName(name), MetadataDoc(name))
            /\ nextId' = nextId + 2
            /\ last' = req @@ [result |-> "OK", id |-> org_id]
            /\ UNCHANGED <<now, tokens, pending, calls>>

\* update_organization: the body of the copy loop, without the _id that is popped
MigrateDoc(doc, new_name) ==
    IF doc._type = "metadata"
    THEN [doc EXCEPT !.organization_name = new_name]
    ELSE doc

\* update_organization: the copy loop and the drop.  The cursor of
\* old_collection.find() is read in one batch, so when old and new are the
\* same collection the copies are appended to it and dropped with it.
Migrate(c, old_collection_name, new_collection_name, new_name) ==
    LET docs == FindAll(c, old_collection_name)
        copied == [i \in 1..Len(docs) |-> MigrateDoc(docs[i], new_name)]
    IN  Drop(InsertMany(c, new_collection_name, copied), old_collection_name)

AdminsKeepingEmail(org, email, password, salt) ==
    {IF a._id = org.admin_id
     THEN [a EXCEPT !.password_hash = hash_password(password, salt),
                    !.updated_at = now]
     ELSE a : a \in admins}

\* update_organization: admins.update_one({"_id": org["admin_id"]}, {"$set": ...})
AdminsUpdated(org, email, password, salt) ==
    {IF a._id = org.admin_id
     THEN [a EXCEPT !.email = email,
                    !.password_hash = hash_password(password, salt),
                    !.updated_at = now]
     ELSE a : a \in admins}

\* update_organization: organizations.update_one({"_id": org["_id"]}, {"$set": update_data})
OrgsUpdated(org, name, email) ==
    {IF o._id = org._id
     THEN [o EXCEPT !.organization_name = name,
                    !.collection_name = CollectionName(name),
                    !.admin_email = email,
                    !.updated_at = now]
     ELSE o : o \in orgs}

\* PUT /org/update, after get_current_admin has decoded the bearer token
update_organization(old_name, name, email, password, salt, admin_payload, req) ==
    IF NotOwner(admin_payload, old_name)
    THEN /\ last' = req @@ [result |-> "Forbidden"]
         /\ UNCHANGED <<orgs, admins, colls, nextId, now, tokens, pending, calls>>
    ELSE IF OrgsNamed(old_name) = {}
    THEN /\ last' = req @@ [result |-> "NotFound"]
         /\ UNCHANGED <<orgs, admins, colls, nextId, now, tokens, pending, calls>>
    ELSE \E org \in OrgsNamed(old_name) :
        IF RenameClash(old_name, name)
        THEN /\ last' = req @@ [result |-> "DuplicateName"]
             /\ UNCHANGED <<orgs, admins, colls, nextId, now, tokens, pending, calls>>
        ELSE
            LET new_collection_name == CollectionName(name)
                old_collection_name == org.collection_name
            IN  /\ colls' = IF name # old_name
                            THEN Migrate(colls, old_collection_name, new_collection_name, name)
                            ELSE colls
                /\ admins' = AdminsUpdated(org, email, password, salt)
                /\ orgs' = OrgsUpdated(org, name, email)
                /\ last' = req @@ [result |-> "OK", id |-> org._id]
                /\ UNCHANGED <<nextId, now, tokens, pending, calls>>

\* DELETE /org/delete, after get_current_admin has decoded the bearer token.
\* last keeps the id and the admin email of the record that was deleted.
delete_organization(org_name, admin_payload, req) ==
    IF NotOwner(admin_payload, org_name)
    THEN /\ last' = req @@ [result |-> "Forbidden"]
         /\ UNCHANGED <<orgs, admins, colls, nextId, now, tokens, pending, calls>>
    ELSE IF OrgsNamed(org_name) = {}
    THEN /\ last' = req @@ [result |-> "NotFound"]
         /\ UNCHANGED <<orgs, admins, colls, nextId, now, tokens, pending, calls>>
    ELSE \E org \in OrgsNamed(org_name) :
        /\ colls' = Drop(colls, org.collection_name)
        /\ admins' = {a \in admins : a._id # org.admin_id}
        /\ orgs' = {o \in orgs : o._id # org._id}
        /\ last' = req @@ [result |-> "OK", id |-> org._id, admin_email |-> org.admin_email]
        /\ UNCHANGED <<nextId, now, tokens, pending, calls>>

\* Depends(get_current_admin): the payload of the bearer token, or the 401.
get_current_admin(token) == decode_token(token)

\* The 401 answered before the service runs.
Unauthenticated(req, detail) ==
    /\ last' = req @@ [result |-> detail]
    /\ UNCHANGED <<orgs, admins, colls, nextId, now, tokens, pending, calls>>

\* What a client can put in the Authorization header: the token it holds, as
\* issued or with the org_name of the payload rewritten under the old signature.
Presented(names) ==
    tokens \cup {[t EXCEPT !.payload.org_name = n] : t \in tokens, n \in names}

UpdateRoute(old_name, name, email, password, salt, token) ==
    LET req == [op |-> "update", name |-> old_name, new_name |-> name,
                email |-> email, password |-> password, token |-> token]
        admin == get_current_admin(token)
    IN  IF admin.ok
        THEN update_organization(old_name, name, email, password, salt,
                                 admin.payload, req @@ [claims |-> admin.payload])
        ELSE Unauthenticated(req, admin.detail)

DeleteRoute(org_name, token) ==
    LET req == [op |-> "delete", name |-> org_name, token |-> token]
        admin == get_current_admin(token)
    IN  IF admin.ok
        THEN delete_organization(org_name, admin.payload, req @@ [claims |-> admin.payload])
        ELSE Unauthenticated(req, admin.detail)

(* ----------------------------- AuthService ---------------------------- *)

PasswordOkAlways(password, admin) == TRUE

\* login: "Verify password"
PasswordOk(password, admin) == verify_password(password, admin.password_hash)

\* POST /admin/login.  find_one returns one of the matching documents.
login(email, password) ==
    LET req == [op |-> "login", email |-> email, password |-> password]
    IN
    IF AdminsWithEmail(email) = {}
    THEN /\ last' = req @@ [result |-> "InvalidCredentials"]
         /\ UNCHANGED <<orgs, admins, colls, nextId, now, tokens, pending, calls>>
    ELSE \E admin \in AdminsWithEmail(email) :
        IF ~PasswordOk(password, admin)
        THEN /\ last' = req @@ [result |-> "InvalidCredentials"]
             /\ UNCHANGED <<orgs, admins, colls, nextId, now, tokens, pending, calls>>
        ELSE IF OrgsOfAdmin(admin._id) = {}
        THEN /\ last' = req @@ [result |-> "NotFound"]
             /\ UNCHANGED <<orgs, admins, colls, nextId, now, tokens, pending, calls>>
        ELSE \E org \in OrgsOfAdmin(admin._id) :
            LET token == create_token(admin._id, org._id, org.organization_name)
            IN  /\ tokens' = {token}
                /\ last' = req @@ [result |-> "OK",
                                   access_token |-> token,
                                   org_name |-> org.organization_name,
                                   admin_email |-> email]
                /\ UNCHANGED <<orgs, admins, colls, nextId, now, pending, calls>>

(* ------------------ create_organization, await by await --------------- *)

\* existing_org = await organizations.find_one(...)
CreateFindOrg(name, email, password, salt) ==
    /\ pending.pc = "idle"
    /\ IF NameTaken(name)
       THEN /\ last' = [op |-> "create", name |-> name, email |-> email,
                        result |-> "DuplicateName"]
            /\ UNCHANGED pending
       ELSE /\ pending' = [pc |-> "find_admin", name |-> name, email |-> email,
                           password |-> password, salt |-> salt]
            /\ last' = [op |-> "await"]
    /\ UNCHANGED <<orgs, admins, colls, nextId, now, tokens, calls>>

\* existing_admin = await admins.find_one(...)
CreateFindAdmin ==
    /\ pending.pc = "find_admin"
    /\ IF EmailTaken(pending.email)
       THEN /\ last' = [op |-> "create", name |-> pending.name, email |-> pending.email,
                        result |-> "DuplicateEmail"]
            /\ pending' = [pc |-> "idle"]
       ELSE /\ pending' = [pending EXCEPT !.pc = "insert_admin"]
            /\ last' = [op |-> "await"]
    /\ UNCHANGED <<orgs, admins, colls, nextId, now, tokens, calls>>

\* admin_result = await admins.insert_one(admin_doc)
CreateInsertAdmin ==
    /\ pending.pc = "insert_admin"
    /\ nextId + 1 <= MaxId
    /\ admins' = admins \cup {AdminDoc(nextId, pending.email, pending.password, pending.salt)}
    /\ nextId' = nextId + 1
    /\ pending' = [pc |-> "insert_org", name |-> pending.name, email |-> pending.email,
                   admin_id |-> nextId]
    /\ last' = [op |-> "await"]
    /\ UNCHANGED <<orgs, colls, now, tokens, calls>>

\* org_result = await organizations.insert_one(org_doc)
CreateInsertOrg ==
    /\ pending.pc = "insert_org"
    /\ orgs' = orgs \cup {OrgDoc(nextId, pending.name, pending.admin_id, pending.email)}
    /\ nextId' = nextId + 1
    /\ pending' = [pc |-> "insert_metadata", name |-> pending.name, email |-> pending.email,
                   org_id |-> nextId]
    /\ last' = [op |-> "await"]
    /\ UNCHANGED <<admins, colls, now, tokens, calls>>

\* await org_collection.insert_one({...}), and the return
CreateInsertMetadata ==
    /\ pending.pc = "insert_metadata"
    /\ colls' = InsertOne(colls, CollectionName(pending.name), MetadataDoc(pending.name))
    /\ last' = [op |-> "create", name |-> pending.name, email |-> pending.email,
                result |-> "OK", id |-> pending.org_id]
    /\ pending' = [pc |-> "idle"]
    /\ UNCHANGED <<orgs, admins, nextId, now, tokens, calls>>

(* ------------- concurrent requests, store call by store call ---------- *)

\* A coroutine moves on to its next await.
Goto(p, call) ==
    /\ calls' = [calls EXCEPT ![p] = call]
    /\ last' = [op |-> "await"]

\* A coroutine returns or raises HTTPException.
Finish(p, call, result) == Goto(p, [call EXCEPT !.pc = "done", !.result = result])

\* create_organization: existing_org = await organizations.find_one(...)
CallCreateFindOrg(p, name, email, password, salt) ==
    LET call == [pc |-> "find_admin", op |-> "create", name |-> name, email |-> email,
                 password |-> password, salt |-> salt, result |-> "none"]
    IN  /\ calls[p].pc = "idle"
        /\ IF NameTaken(name)
           THEN Finish(p, call, "DuplicateName")
           ELSE Goto(p, call)
        /\ UNCHANGED <<orgs, admins, colls, nextId, now, tokens, pending>>

\* create_organization: existing_admin = await admins.find_one(...)
CallCreateFindAdmin(p) ==
    /\ calls[p].pc = "find_admin"
    /\ IF EmailTaken(calls[p].email)
       THEN Finish(p, calls[p], "DuplicateEmail")
       ELSE Goto(p, [calls[p] EXCEPT !.pc = "insert_admin"])
    /\ UNCHANGED <<orgs, admins, colls, nextId, now, tokens, pending>>

\* create_organization: admin_result = await admins.insert_one(admin_doc)
CallCreateInsertAdmin(p) ==
    /\ calls[p].pc = "insert_admin"
    /\ nextId + 1 <= MaxId
    /\ admins' = admins \cup {AdminDoc(nextId, calls[p].email, calls[p].password,
                                       calls[p].salt)}
    /\ nextId' = nextId + 1
    /\ Goto(p, [calls[p] EXCEPT !.pc = "insert_org"] @@ [admin_id |-> nextId])
    /\ UNCHANGED <<orgs, colls, now, tokens, pending>>

\* create_organization: org_result = await organizations.insert_one(org_doc)
CallCreateInsertOrg(p) ==
    /\ calls[p].pc = "insert_org"
    /\ orgs' = orgs \cup {OrgDoc(nextId, calls[p].name, calls[p].admin_id, calls[p].email)}
    /\ nextId' = nextId + 1
    /\ Goto(p, [calls[p] EXCEPT !.pc = "insert_metadata"] @@ [id |-> nextId])
    /\ UNCHANGED <<admins, colls, now, tokens, pending>>

\* create_organization: await org_collection.insert_one({...}), and the return
CallCreateInsertMetadata(p) ==
    /\ calls[p].pc = "insert_metadata"
    /\ colls' = InsertOne(colls, CollectionName(calls[p].name), MetadataDoc(calls[p].name))
    /\ Finish(p, calls[p], "OK")
    /\ UNCHANGED <<orgs, admins, nextId, now, tokens, pending>>

\* PUT /org/update: get_current_admin, the ownership check and
\* org = await organizations.find_one({"organization_name": old_name})
CallUpdateFindOrg(p, old_name, name, email, password, salt, token) ==
    LET call == [pc |-> "find_existing", op |-> "update", name |-> old_name,
                 new_name |-> name, email |-> email, password |-> password,
                 salt |-> salt, result |-> "none"]
        admin == get_current_admin(token)
    IN  /\ calls[p].pc = "idle"
        /\ IF ~admin.ok
           THEN Finish(p, call, admin.detail)
           ELSE IF NotOwner(admin.payload, old_name)
           THEN Finish(p, call, "Forbidden")
           ELSE IF OrgsNamed(old_name) = {}
           THEN Finish(p, call, "NotFound")
           ELSE \E org \in OrgsNamed(old_name) :
                    Goto(p, [call EXCEPT !.pc = IF name # old_name
                                                THEN "find_existing"
                                                ELSE "update_admin"]
                            @@ [org |-> org, id |-> org._id])
        /\ UNCHANGED <<orgs, admins, colls, nextId, now, tokens, pending>>

\* update_organization: existing = await organizations.find_one(...)
CallUpdateFindExisting(p) ==
    /\ calls[p].pc = "find_existing"
    /\ IF RenameClash(calls[p].name, calls[p].new_name)
       THEN Finish(p, calls[p], "DuplicateName")
       ELSE Goto(p, [calls[p] EXCEPT !.pc = "find_docs"])
    /\ UNCHANGED <<orgs, admins, colls, nextId, now, tokens, pending>>

\* update_organization: the cursor of old_collection.find() fetches its batch
CallUpdateFindDocs(p) ==
    LET docs == FindAll(colls, calls[p].org.collection_name)
    IN  /\ calls[p].pc = "find_docs"
        /\ Goto(p, [calls[p] EXCEPT !.pc = IF docs = <<>> THEN "drop" ELSE "insert_doc"]
                   @@ [docs |-> docs])
        /\ UNCHANGED <<orgs, admins, colls, nextId, now, tokens, pending>>

\* update_organization: await new_collection.insert_one(doc)
CallUpdateInsertDoc(p) ==
    LET docs == calls[p].docs
    IN  /\ calls[p].pc = "insert_doc"
        /\ colls' = InsertOne(colls, CollectionName(calls[p].new_name),
                              MigrateDoc(Head(docs), calls[p].new_name))
        /\ Goto(p, [calls[p] EXCEPT !.docs = Tail(docs),
                                    !.pc = IF Tail(docs) = <<>> THEN "drop"
                                           ELSE "insert_doc"])
        /\ UNCHANGED <<orgs, admins, nextId, now, tokens, pending>>

\* update_organization: await old_collection.drop()
CallUpdateDrop(p) ==
    /\ calls[p].pc = "drop"
    /\ calls[p].op = "update"
    /\ colls' = Drop(colls, calls[p].org.collection_name)
    /\ Goto(p, [calls[p] EXCEPT !.pc = "update_admin"])
    /\ UNCHANGED <<orgs, admins, nextId, now, tokens, pending>>

\* update_organization: await admins.update_one(...), which matches no
\* document when the admin has been deleted meanwhile
CallUpdateAdmin(p) ==
    /\ calls[p].pc = "update_admin"
    /\ admins' = AdminsUpdated(calls[p].org, calls[p].email, calls[p].password,
                               calls[p].salt)
    /\ Goto(p, [calls[p] EXCEPT !.pc = "update_org"])
    /\ UNCHANGED <<orgs, colls, nextId, now, tokens, pending>>

\* update_organization: await organizations.update_one(...), and the return
\* of the view built from org and update_data
CallUpdateOrg(p) ==
    /\ calls[p].pc = "update_org"
    /\ orgs' = OrgsUpdated(calls[p].org, calls[p].new_name, calls[p].email)
    /\ Finish(p, calls[p], "OK")
    /\ UNCHANGED <<admins, colls, nextId, now, tokens, pending>>

DeleteOrderReversed == <<"delete_org", "delete_admin", "drop">>

\* delete_organization: the order of its three writes
DeleteOrder == <<"drop", "delete_admin", "delete_org">>

\* delete_organization: the await that follows a write, or the return
AfterDelete(step) ==
    IF \E i \in 1..(Len(DeleteOrder) - 1) : DeleteOrder[i] = step
    THEN DeleteOrder[(CHOOSE i \in 1..(Len(DeleteOrder) - 1) : DeleteOrder[i] = step) + 1]
    ELSE "done"

\* A write of delete_organization is made, and the coroutine moves on.
DeleteGoto(p) ==
    IF AfterDelete(calls[p].pc) = "done"
    THEN Finish(p, calls[p], "OK")
    ELSE Goto(p, [calls[p] EXCEPT !.pc = AfterDelete(calls[p].pc)])

\* DELETE /org/delete: get_current_admin, the ownership check and
\* org = await organizations.find_one({"organization_name": org_name})
CallDeleteFindOrg(p, org_name, token) ==
    LET call == [pc |-> "find_org", op |-> "delete", name |-> org_name,
                 result |-> "none"]
        admin == get_current_admin(token)
    IN  /\ calls[p].pc = "idle"
        /\ IF ~admin.ok
           THEN Finish(p, call, admin.detail)
           ELSE IF NotOwner(admin.payload, org_name)
           THEN Finish(p, call, "Forbidden")
           ELSE IF OrgsNamed(org_name) = {}
           THEN Finish(p, call, "NotFound")
           ELSE \E org \in OrgsNamed(org_name) :
                    Goto(p, [call EXCEPT !.pc = DeleteOrder[1]]
                            @@ [org |-> org, id |-> org._id])
        /\ UNCHANGED <<orgs, admins, colls, nextId, now, tokens, pending>>

\* delete_organization: await org_collection.drop()
CallDeleteDrop(p) ==
    /\ calls[p].pc = "drop"
    /\ calls[p].op = "delete"
    /\ colls' = Drop(colls, calls[p].org.collection_name)
    /\ DeleteGoto(p)
    /\ UNCHANGED <<orgs, admins, nextId, now, tokens, pending>>

\* delete_organization: await admins.delete_one({"_id": ObjectId(org["admin_id"])})
CallDeleteAdmin(p) ==
    /\ calls[p].pc = "delete_admin"
    /\ admins' = {a \in admins : a._id # calls[p].org.admin_id}
    /\ DeleteGoto(p)
    /\ UNCHANGED <<orgs, colls, nextId, now, tokens, pending>>

OrgsWithoutName(org) == {o \in orgs : o.organization_name # org.organization_name}

\* delete_organization: organizations.delete_one({"_id": org["_id"]})
OrgsWithout(org) == {o \in orgs : o._id # org._id}

\* delete_organization: await organizations.delete_one(...)
CallDeleteOrg(p) ==
    /\ calls[p].pc = "delete_org"
    /\ orgs' = OrgsWithout(calls[p].org)
    /\ DeleteGoto(p)
    /\ UNCHANGED <<admins, colls, nextId, now, tokens, pending>>

\* The response has been sent; the worker takes the next request.
Return(p) ==
    /\ calls[p].pc = "done"
    /\ calls' = [calls EXCEPT ![p] = [pc |-> "idle"]]
    /\ last' = [op |-> "return"]
    /\ UNCHANGED <<orgs, admins, colls, nextId, now, tokens, pending>>

\* No request is being served.
Quiet == \A p \in Procs : calls[p].pc = "idle"

\* The awaits of the request coroutine p.
CallStep(p) ==
    \/ CallCreateFindAdmin(p)
    \/ CallCreateInsertAdmin(p)
    \/ CallCreateInsertOrg(p)
    \/ CallCreateInsertMetadata(p)
    \/ CallUpdateFindExisting(p)
    \/ CallUpdateFindDocs(p)
    \/ CallUpdateInsertDoc(p)
    \/ CallUpdateDrop(p)
    \/ CallUpdateAdmin(p)
    \/ CallUpdateOrg(p)
    \/ CallDeleteDrop(p)
    \/ CallDeleteAdmin(p)
    \/ CallDeleteOrg(p)

(* ----------------------------- environment ---------------------------- *)

\* The documents clients have written, in whatever collection they are now.
DataDocs ==
    {<<n, i>> \in UNION {{n} \X (DOMAIN colls[n]) : n \in DOMAIN colls} :
        colls[n][i]._type = "data"}

\* A client of an existing organization writes a document of its own into
\* the collection Database.get_org_collection hands out.
InsertTenantDoc(org_name, payload) ==
    /\ OrgsNamed(org_name) # {}
    /\ Cardinality(DataDocs) < MaxDocs
    /\ colls' = InsertOne(colls, CollectionName(org_name),
                          [_type |-> "data", payload |-> payload])
    /\ last' = [op |-> "insert_doc", name |-> org_name]
    /\ UNCHANGED <<orgs, admins, nextId, now, tokens, pending, calls>>

\* datetime.utcnow() moves on to the next instant at which a request arrives.
Tick(instants) ==
    /\ \E t \in instants :
          /\ t > now
          /\ \A u \in instants : u > now => t <= u
          /\ now' = t
    /\ last' = [op |-> "tick"]
    /\ UNCHANGED <<orgs, admins, colls, nextId, tokens, pending, calls>>

(* --------------------------- specifications --------------------------- *)

\* The lifecycle and session routes served one at a time, with the bearer
\* token the client holds, at one instant.
Next ==
    \/ \E n \in Names, e \in Emails, p \in Passwords, s \in Salts :
          create_organization(n, e, p, s)
    \/ \E o \in Names, n \in Names, e \in Emails, p \in Passwords, s \in Salts :
          \E t \in tokens : UpdateRoute(o, n, e, p, s, t)
    \/ \E n \in Names : \E t \in tokens : DeleteRoute(n, t)
    \/ \E e \in Emails, p \in Passwords : login(e, p)
    \/ \E n \in Names : get_organization(n)
    \/ \E n \in Names, d \in Payloads : InsertTenantDoc(n, d)

Spec == Init /\ [][Next]_vars

\* The same routes with the clock running and with bearer tokens that may
\* have been tampered with.
NextTok ==
    \/ \E n \in TokNames, e \in TokEmails, p \in TokPasswords, s \in TokSalts :
          create_organization(n, e, p, s)
    \/ \E o \in TokNames, n \in TokNames, e \in TokEmails, p \in TokPasswords, s \in TokSalts :
          \E t \in Presented(TokNames) : UpdateRoute(o, n, e, p, s, t)
    \/ \E n \in TokNames : \E t \in Presented(TokNames) : DeleteRoute(n, t)
    \/ \E e \in TokEmails, p \in TokPasswords : login(e, p)
    \/ Tick(TokInstants)

SpecTok == Init /\ [][NextTok]_vars

\* Logins, updates and deletes served between the awaits of a create.
NextAuth ==
    \/ \E n \in AuthNames, e \in Emails, p \in AuthPasswords, s \in Salts :
          CreateFindOrg(n, e, p, s)
    \/ CreateFindAdmin
    \/ CreateInsertAdmin
    \/ CreateInsertOrg
    \/ CreateInsertMetadata
    \/ \E o \in AuthNames, n \in AuthNames, e \in Emails, p \in AuthPasswords, s \in Salts :
          \E t \in tokens : UpdateRoute(o, n, e, p, s, t)
    \/ \E n \in AuthNames : \E t \in tokens : DeleteRoute(n, t)
    \/ \E e \in Emails, p \in AuthPasswords : login(e, p)

SpecAuth == Init /\ [][NextAuth]_vars

\* Creates and updates only: no tenant is ever deleted.
NextCU ==
    \/ \E n \in Names, e \in Emails, p \in Passwords, s \in Salts :
          create_organization(n, e, p, s)
    \/ \E o \in Names, n \in Names, e \in Emails, p \in Passwords, s \in Salts :
          \E t \in tokens : UpdateRoute(o, n, e, p, s, t)
    \/ \E e \in Emails, p \in Passwords : login(e, p)
    \/ \E n \in Names, d \in Payloads : InsertTenantDoc(n, d)

SpecCU == Init /\ [][NextCU]_vars

\* Two requests served concurrently, their store calls interleaved, after
\* any number of requests served one at a time.
NextRace ==
    \/ /\ Quiet
       /\ \E n \in RaceNames, e \in RaceEmails, p \in Passwords, s \in Salts :
             create_organization(n, e, p, s)
    \/ /\ Quiet
       /\ \E e \in RaceEmails, p \in Passwords : login(e, p)
    \/ \E q \in Procs : \E n \in RaceNames, e \in RaceEmails, p \in Passwords, s \in Salts :
          CallCreateFindOrg(q, n, e, p, s)
    \/ \E q \in Procs : \E o \in RaceNames, n \in RaceNames, e \in RaceEmails,
                           p \in Passwords, s \in Salts :
          \E t \in tokens : CallUpdateFindOrg(q, o, n, e, p, s, t)
    \/ \E q \in Procs : \E n \in RaceNames : \E t \in tokens : CallDeleteFindOrg(q, n, t)
    \/ \E q \in Procs : CallStep(q)

SpecRace == Init /\ [][NextRace]_vars

\* One request at a time, each followed store call by store call.
NextSolo ==
    \/ \E n \in Names, e \in Emails, p \in Passwords, s \in Salts :
          Quiet /\ CallCreateFindOrg(1, n, e, p, s)
    \/ \E o \in Names, n \in Names, e \in Emails, p \in Passwords, s \in Salts :
          \E t \in tokens : Quiet /\ CallUpdateFindOrg(1, o, n, e, p, s, t)
    \/ \E n \in Names : \E t \in tokens : Quiet /\ CallDeleteFindOrg(1, n, t)
    \/ CallStep(1)
    \/ Return(1)
    \/ \E e \in Emails, p \in Passwords : Quiet /\ login(e, p)
    \/ \E n \in Names, d \in Payloads : Quiet /\ InsertTenantDoc(n, d)

SpecSolo == Init /\ [][NextSolo]_vars

TypeOK ==
    /\ nextId \in 1..(MaxId + 1)
    /\ now \in TokInstants
    /\ Cardinality(tokens) <= 1

(* ------------------------------ properties ---------------------------- *)

\* The bearer token of the last update or delete request decoded.
Authenticated(r) ==
    /\ r.op \in {"update", "delete"}
    /\ r.result \notin {"InvalidToken", "ExpiredToken"}

\* C1: no two tenant records in the registry have the same name.
C1_NameUnique ==
    \A o1 \in orgs, o2 \in orgs :
        o1.organization_name = o2.organization_name => o1 = o2

\* A rename to the name of another tenant was refused.
C1_Witness ==
    /\ Cardinality(orgs) = 2
    /\ last.op = "update"
    /\ last.new_name # last.name
    /\ last.result = "DuplicateName"

\* C2: no two admin records have the same email.
C2_EmailUnique ==
    \A a1 \in admins, a2 \in admins : a1.email = a2.email => a1 = a2

\* C3: every tenant record has exactly one existing partition, named by its
\* partition_name; no two tenant records share a partition; every partition
\* is named by some tenant record.
C3_PartitionCorrespondence ==
    /\ \A o \in orgs : o.collection_name \in DOMAIN colls
    /\ \A o1 \in orgs, o2 \in orgs :
          o1.collection_name = o2.collection_name => o1 = o2
    /\ \A c \in DOMAIN colls : \E o \in orgs : o.collection_name = c

\* Same fields, the tenant name of a metadata document rewritten.
Equivalent(before, after, new_name) ==
    IF before._type = "metadata"
    THEN after = [before EXCEPT !.organization_name = new_name]
    ELSE after = before

C4_Step ==
    (last'.op = "update" /\ last'.result = "OK" /\ last'.new_name # last'.name) =>
        \A old \in {o \in orgs : o._id = last'.id} :
        \A new \in {o \in orgs' : o._id = last'.id} :
            /\ old.collection_name \notin DOMAIN colls'
            /\ \A i \in DOMAIN FindAll(colls, old.collection_name) :
                  \E j \in DOMAIN FindAll(colls', new.collection_name) :
                      Equivalent(colls[old.collection_name][i],
                                 colls'[new.collection_name][j], last'.new_name)

\* C4: a successful rename leaves an equivalent of every document of the old
\* partition in the partition named by the new partition_name, and the old
\* partition no longer exists.
C4_RenamePreservesData == [][C4_Step]_vars

C5_Step ==
    (Authenticated(last') /\ last'.claims.org_name # last'.name) =>
        /\ last'.result = "Forbidden"
        /\ UNCHANGED <<orgs, admins, colls>>

\* C5: update and delete with claims whose org_name differs from the target
\* name fail with Forbidden, whether or not the target exists, and change no
\* tenant record, admin record or partition.
C5_AuthGating == [][C5_Step]_vars

\* Forbidden was answered for a target that does not exist.
C5_Witness ==
    /\ last.op \in {"update", "delete"}
    /\ last.result = "Forbidden"
    /\ OrgsNamed(last.name) = {}
    /\ orgs # {}

\* The tenant a token was issued for is gone or goes by another name.
Stale(claims) ==
    ~ \E o \in orgs : o._id = claims.org_id /\ o.organization_name = claims.org_name

C6_Step ==
    (Authenticated(last') /\ Stale(last'.claims)) =>
        last'.result \in {"Forbidden", "NotFound"}

\* C6: an update or delete presenting the claims of a token whose tenant was
\* deleted or renamed since fails with Forbidden or NotFound.
C6_StaleTokenRejected == [][C6_Step]_vars

\* C7: a token with unmodified payload and correct signature verifies, and
\* yields the claims it was issued with, at every time before iat + 24h and
\* fails with ExpiredToken from then on.
C7_TokenExpiry ==
    (last.op \in {"update", "delete"}
       /\ last.token.sig = Sign(last.token.payload, JWT_SECRET)) =>
        IF now < last.token.payload.iat + 24
        THEN Authenticated(last) /\ last.claims = last.token.payload
        ELSE last.result = "ExpiredToken"

\* A token is refused at the very instant it expires, on a registry changed meanwhile.
C7_Witness ==
    /\ last.op \in {"update", "delete"}
    /\ last.result = "ExpiredToken"
    /\ now = last.token.payload.iat + 24
    /\ \E o \in orgs : o.updated_at # NULL

C8_Step ==
    (last'.op = "create") =>
        IF OrgsNamed(last'.name) # {}
        THEN last'.result = "DuplicateName" /\ UNCHANGED <<orgs, admins, colls>>
        ELSE IF AdminsWithEmail(last'.email) # {}
        THEN last'.result = "DuplicateEmail" /\ UNCHANGED <<orgs, admins, colls>>
        ELSE last'.result = "OK"

\* C8: create fails with DuplicateName when the name is taken, otherwise with
\* DuplicateEmail when the email is taken, otherwise succeeds; a failure
\* changes no admin record, tenant record or partition.
C8_CreateChecks == [][C8_Step]_vars

\* The email was refused for a free name.
C8_Witness ==
    /\ last.op = "create"
    /\ last.result = "DuplicateEmail"
    /\ OrgsNamed(last.name) = {}

C9_Step ==
    (last'.op = "login") =>
        LET found == {a \in admins : a.email = last'.email}
            good == {a \in found :
                        a.password_hash.digest = <<a.password_hash.salt, last'.password>>}
            owned(a) == {o \in orgs : o.admin_id = a._id}
        IN  /\ UNCHANGED <<orgs, admins, colls>>
            /\ last'.result \in {"InvalidCredentials", "NotFound", "OK"}
            /\ (good = {}) => last'.result = "InvalidCredentials"
            /\ (last'.result = "InvalidCredentials") => (found = {} \/ good # found)
            /\ (found # {} /\ good = found /\ \A a \in found : owned(a) = {}) =>
                  last'.result = "NotFound"
            /\ (last'.result = "NotFound") => \E a \in good : owned(a) = {}
            /\ (found # {} /\ good = found /\ \A a \in found : owned(a) # {}) =>
                  last'.result = "OK"
            /\ (last'.result = "OK") =>
                  \E a \in good : \E o \in owned(a) :
                      /\ last'.access_token.payload.admin_id = a._id
                      /\ last'.access_token.payload.org_id = o._id
                      /\ last'.access_token.payload.org_name = o.organization_name
                      /\ last'.access_token.sig =
                            Sign(last'.access_token.payload, JWT_SECRET)

\* C9: login fails with InvalidCredentials when no admin has the email or the
\* password does not verify against the hash of the admin found, fails with
\* NotFound when no tenant record references that admin, and otherwise
\* succeeds with a token whose admin_id, org_id and org_name are the admin's
\* id and the id and current name of the tenant referencing it; it changes
\* no tenant record, admin record or partition.
C9_Login == [][C9_Step]_vars

\* A login with the right password found the admin of a create that has
\* not inserted its tenant record yet.
C9_Witness ==
    /\ last.op = "login"
    /\ last.result = "NotFound"
    /\ pending.pc = "insert_org"

\* C10: every tenant record's admin_id refers to exactly one admin record,
\* whose email is the tenant's admin_email, and every admin record is
\* referenced by exactly one tenant record.
C10_AdminCorrespondence ==
    /\ \A o \in orgs :
          /\ Cardinality({a \in admins : a._id = o.admin_id}) = 1
          /\ \A a \in admins : a._id = o.admin_id => a.email = o.admin_email
    /\ \A a \in admins : Cardinality(OrgsOfAdmin(a._id)) = 1

\* An update gave a tenant's admin the email of another tenant's admin.
C10_Witness ==
    /\ last.op = "update"
    /\ last.result = "OK"
    /\ \E o1 \in orgs, o2 \in orgs :
          o1._id = last.id /\ o2._id # o1._id /\ o1.admin_email = o2.admin_email

C11_Step ==
    /\ (last.op = "delete" /\ last.result = "OK") =>
          /\ (last'.op = "get" /\ last'.name = last.name) =>
                last'.result = "NotFound"
          /\ (last'.op = "login" /\ last'.email = last.admin_email) =>
                last'.result = "InvalidCredentials"
          /\ (last'.op = "create" /\ last'.name = last.name
                /\ last'.email = last.admin_email) =>
                last'.result = "OK"
    /\ (last.op = "update" /\ last.result = "OK" /\ last.new_name # last.name) =>
          /\ (last'.op = "get" /\ last'.name = last.name) =>
                last'.result = "NotFound"
          /\ (last'.op = "get" /\ last'.name = last.new_name) =>
                last'.result = "OK" /\ last'.view.id = last.id

\* C11: right after a successful delete of a name, get of the name fails with
\* NotFound, login with the deleted admin's email fails with
\* InvalidCredentials and create with the same name and email succeeds;
\* right after a successful rename, get of the old name fails with NotFound
\* and get of the new name returns the record with the same id.
C11_Lifecycle == [][C11_Step]_vars

C13_Step ==
    (last.op = "update" /\ last.result = "OK"
       /\ last'.op = "login" /\ last'.email = last.email) =>
        IF last'.password = last.password
        THEN /\ last'.result = "OK"
             /\ last'.access_token.payload.org_name = last.new_name
             /\ last'.access_token.payload.org_id = last.id
        ELSE last'.result = "InvalidCredentials"

\* C13: right after a successful update, login with the new email and the
\* new password succeeds with a token for the updated tenant under its new
\* name, and login with the new email and any other password fails with
\* InvalidCredentials.
C13_CredentialReplacement == [][C13_Step]_vars

MetadataDocs(name) ==
    {i \in DOMAIN FindAll(colls, name) : colls[name][i]._type = "metadata"}

\* C14: the partition of every tenant contains exactly one metadata
\* document, of schema version "1.0" and with the tenant's current name.
C14_MetadataDocument ==
    \A o \in orgs :
        /\ Cardinality(MetadataDocs(o.collection_name)) = 1
        /\ \A i \in MetadataDocs(o.collection_name) :
              /\ colls[o.collection_name][i].schema_version = "1.0"
              /\ colls[o.collection_name][i].organization_name = o.organization_name

C15_Step ==
    /\ (last'.op = "update" /\ last'.result = "OK") =>
          /\ \E old \in orgs : \E new \in orgs' :
                /\ old._id = last'.id
                /\ new._id = last'.id
                /\ new.admin_id = old.admin_id
                /\ new.created_at = old.created_at
                /\ new.updated_at # NULL
                /\ \E a \in admins' : a._id = old.admin_id
          /\ \A o \in orgs : o._id # last'.id =>
                /\ o \in orgs'
                /\ \A a \in admins : a._id = o.admin_id => a \in admins'
                /\ FindAll(colls', o.collection_name) = FindAll(colls, o.collection_name)
    /\ \A new \in orgs' : new.updated_at # NULL =>
          \/ \E old \in orgs : old._id = new._id /\ old.updated_at # NULL
          \/ last'.op = "update" /\ last'.result = "OK" /\ last'.id = new._id

\* C15: a successful update keeps the tenant's id, admin_id and created_at
\* and the admin's id, sets updated_at on the tenant record, and changes no
\* record or partition of another tenant; updated_at is null until the
\* tenant's first successful update.
C15_UpdateFrame == [][C15_Step]_vars

C16_Step ==
    (last'.op = "update" /\ Authenticated(last')
       /\ last'.claims.org_name = last'.name
       /\ \E o \in orgs : o.organization_name = last'.name) =>
        /\ (last'.result = "DuplicateName") <=>
              (last'.new_name # last'.name
                 /\ \E o \in orgs : o.organization_name = last'.new_name)
        /\ (last'.result = "DuplicateName") => UNCHANGED <<orgs, admins, colls>>
        /\ (last'.new_name = last'.name) =>
              last'.result = "OK" /\ UNCHANGED colls

\* C16: an update with matching claims on an existing tenant fails with
\* DuplicateName exactly when the new name differs from the old one and is
\* taken, and then changes no record and no partition; with the new name
\* equal to the old one it succeeds and leaves every partition as it is.
C16_UpdateDuplicateName == [][C16_Step]_vars

\* An update that keeps the name went through on a tenant whose partition
\* holds a client document.
C16_Witness ==
    /\ last.op = "update"
    /\ last.result = "OK"
    /\ last.new_name = last.name
    /\ \E n \in DOMAIN colls : \E i \in DOMAIN colls[n] : colls[n][i]._type = "data"


\* The two concurrent requests have both been answered.
BothDone == \A p \in Procs : calls[p].pc = "done"

\* C12: two lifecycle operations on different tenant names, interleaved store
\* call by store call, end in a state a serial execution of the two could
\* produce.  Served one after the other, tenant names stay unique, and two
\* creates never both succeed with the same name or the same admin email.
C12_Independence ==
    \A p \in Procs, q \in Procs :
        (p # q /\ BothDone /\ calls[p].name # calls[q].name) =>
            /\ \A o1 \in orgs, o2 \in orgs :
                  o1.organization_name = o2.organization_name => o1 = o2
            /\ (calls[p].op = "create" /\ calls[p].result = "OK" /\
                calls[q].op = "create" /\ calls[q].result = "OK") =>
                   calls[p].email # calls[q].email

\* A delete (p) and a renaming update (q) that were served concurrently, both
\* past the ownership check and the lookup of the same tenant record, the
\* update past its lookup of the new name, and both answered.
Raced(p, q) ==
    /\ p # q
    /\ BothDone
    /\ calls[p].op = "delete" /\ calls[q].op = "update"
    /\ calls[q].new_name # calls[q].name
    /\ "org" \in DOMAIN calls[p] /\ "org" \in DOMAIN calls[q]
    /\ calls[p].org._id = calls[q].org._id
    /\ calls[q].result # "DuplicateName"

\* A collection that no tenant record names.
Orphan(n) == n \in DOMAIN colls /\ \A o \in orgs : o.collection_name # n

\* C17: a delete and a renaming update of the same tenant that interleave
\* after both have found the record both report success, and the tenant the
\* update's success view describes is then no longer in the registry; in some
\* of these interleavings (C17_Witness) a partition is left that no tenant
\* record names.
C17_SameNameRace ==
    \A p \in Procs, q \in Procs :
        Raced(p, q) =>
            /\ calls[p].result = "OK"
            /\ calls[q].result = "OK"
            /\ \A o \in orgs : o._id # calls[q].id

C17_Witness ==
    \E p \in Procs, q \in Procs :
        /\ Raced(p, q)
        /\ calls[p].result = "OK" /\ calls[q].result = "OK"
        /\ Orphan(CollectionName(calls[q].new_name))

\* The request p is a delete that has found its tenant record.
Deleting(p) == "org" \in DOMAIN calls[p] /\ calls[p].op = "delete"

\* C18: a delete that passes its checks drops the partition first, then
\* deletes the admin record, then the tenant record; so while it is the only
\* request being served the partition and the admin record of the tenant
\* exist only if its tenant record still exists.
C18_Step ==
    \A p \in Procs :
        (calls[p].pc \notin {"idle", "done"} /\ Deleting(p)) =>
            LET org == calls[p].org
                record == \E o \in orgs : o._id = org._id
                record_after == \E o \in orgs' : o._id = org._id
                admin == \E a \in admins : a._id = org.admin_id
                admin_after == \E a \in admins' : a._id = org.admin_id
                partition == org.collection_name \in DOMAIN colls
                partition_after == org.collection_name \in DOMAIN colls'
            IN  /\ (partition /\ ~partition_after) => admin_after /\ record_after
                /\ (admin /\ ~admin_after) => ~partition /\ record_after
                /\ (record /\ ~record_after) => ~partition /\ ~admin
                /\ partition_after => record_after
                /\ admin_after => record_after
                /\ calls'[p].pc = "done" => ~record_after /\ calls'[p].result = "OK"

C18_DeleteOrder == [][C18_Step]_vars

C18_Witness ==
    /\ Deleting(1)
    /\ \E o \in orgs : o._id = calls[1].org._id
    /\ \A a \in admins : a._id # calls[1].org.admin_id
    /\ calls[1].org.collection_name \notin DOMAIN colls

\* The request p is a create that has passed its two checks.
Creating(p) ==
    /\ calls[p].pc \in {"insert_admin", "insert_org", "insert_metadata"}
    /\ calls[p].op = "create"

\* C19: a create that passes its checks inserts the admin record, then the
\* tenant record, then creates the partition; so while it is the only request
\* being served every tenant record present refers to an existing admin
\* record, and a partition for the tenant exists only if its tenant record
\* exists.
C19_Step ==
    \A p \in Procs :
        Creating(p) =>
            LET name == calls[p].name
                record == \E o \in orgs : o.organization_name = name
                record_after == \E o \in orgs' : o.organization_name = name
                partition == CollectionName(name) \in DOMAIN colls
                partition_after == CollectionName(name) \in DOMAIN colls'
            IN  /\ admins' # admins => ~record /\ ~record_after
                /\ orgs' # orgs => admins' = admins /\ colls' = colls
                /\ colls' # colls => record /\ orgs' = orgs /\ admins' = admins
                /\ \A o \in orgs' : \E a \in admins' : a._id = o.admin_id
                /\ partition => record
                /\ partition_after => record_after

C19_CreateOrder == [][C19_Step]_vars
====
